---- MODULE Spec2Model ----
(***************************************************************************)
(* Model of mini_gland_00.py: duct wall assembly (create_duct / combine)   *)
(* and cell seed placement by rejection sampling (create_cells /           *)
(* create_seg_cells / too_close).                                          *)
(*                                                                         *)
(* Lengths are fixed point, in hundredths of a Blender unit.  Angles are   *)
(* integers in units of pi/20 (9 degrees); sin and cos are a table in      *)
(* thousandths.  random.random() is a fraction f / RAND_DEN.               *)
(***************************************************************************)
EXTENDS Integers, Naturals, Sequences, FiniteSets, TLC

\* ---------------------------------------------------------------- bounds
\* seed indices per segment: range(50) in the source
N_SEEDS == 2
\* candidates per seed index: range(10000) in the source
N_TRIES == 2
\* resolution of the random source: random() = f / RAND_DEN, f in 0..RAND_DEN
RAND_DEN == 8

\* numerators f of random() tried at each call site: the azimuth a1, the
\* polar angle a2 (both ends of its range and a point between), the height z
\* (both ends), the radial perturbation (-5% and +5%) and the cell scale
A1_DRAWS == {1}
A2_DRAWS == {0, 3, RAND_DEN}
Z_DRAWS == {0, RAND_DEN}
U_DRAWS == {0, RAND_DEN}
S_DRAWS == {0}

\* ------------------------------------------------------- global constants
cell_types ==
  [acinar       |-> [pressure |-> 180, stiffness |-> 20],
   intercalated |-> [pressure |-> 120, stiffness |-> 11],
   striated     |-> [pressure |-> 120, stiffness |-> 11]]

\* PTS with the radius of endpoint 3 above that of endpoint 2
PTS_widening ==
  << [position |-> <<0, 0, 0>>,    radius |-> 400],
     [position |-> <<0, 0, 1000>>, radius |-> 370],
     [position |-> <<0, 0, 2000>>, radius |-> 150],
     [position |-> <<0, 0, 4000>>, radius |-> 160],
     [position |-> <<0, 0, 4500>>, radius |-> 70],
     [position |-> <<0, 0, 5200>>, radius |-> 5] >>

PTS ==
  << [position |-> <<0, 0, 0>>,    radius |-> 400],
     [position |-> <<0, 0, 1000>>, radius |-> 370],
     [position |-> <<0, 0, 2000>>, radius |-> 150],
     [position |-> <<0, 0, 4000>>, radius |-> 150],
     [position |-> <<0, 0, 4500>>, radius |-> 70],
     [position |-> <<0, 0, 5200>>, radius |-> 5] >>

DSEG ==
  << [idx_out |-> 0, idx_in |-> 1, ctype |-> "striated"],
     [idx_out |-> 1, idx_in |-> 2, ctype |-> "striated"],
     [idx_out |-> 2, idx_in |-> 3, ctype |-> "intercalated"],
     [idx_out |-> 3, idx_in |-> 4, ctype |-> "intercalated"],
     [idx_out |-> 4, idx_in |-> 5, ctype |-> "acinar"] >>

C_RADIUS == 100
C_OFFSET == (15 * C_RADIUS) \div 10
A_RADIUS == 800
\* offsets passed to create_duct: 0.0 and 2.0 * C_OFFSET
WALL_OFFSET == <<0, 2 * C_OFFSET>>

\* PTS[idx] with the source's 0-based index
Pt(idx) == PTS[idx + 1]

\* ------------------------------------------------------------- arithmetic
PI == 20

SIN_TABLE == <<0, 156, 309, 454, 588, 707, 809, 891, 951, 988, 1000>>

\* math.sin, in thousandths, of an angle in units of pi/20
Sin(a) ==
  LET m == a % (2 * PI)
      h == PI \div 2
  IN  IF m <= h THEN SIN_TABLE[m + 1]
      ELSE IF m <= PI THEN SIN_TABLE[(PI - m) + 1]
      ELSE IF m <= PI + h THEN -SIN_TABLE[(m - PI) + 1]
      ELSE -SIN_TABLE[(2 * PI - m) + 1]

\* math.cos, in thousandths
Cos(a) == Sin(a + PI \div 2)

\* random.uniform(lo, hi) = lo + (hi - lo) * random(), random() = f / RAND_DEN
uniform(lo, hi, f) == lo + ((hi - lo) * f) \div RAND_DEN

\* squared length of p - c
LenSq(p, c) ==
  (p[1] - c[1]) * (p[1] - c[1]) + (p[2] - c[2]) * (p[2] - c[2])
    + (p[3] - c[3]) * (p[3] - c[3])

\* too_close that looks at the most recent center only
too_close_last(cc, p, dist) ==
  Len(cc) > 0 /\ LenSq(p, cc[Len(cc)]) < dist * dist

\* too_close(p, dist) against the registry cc: (p-c).length < dist for some c
too_close(cc, p, dist) ==
  \E n \in 1..Len(cc) : LenSq(p, cc[n]) < dist * dist

\* minimum distances used by create_seg_cells: 2.8 * C_RADIUS, 2.5 * C_RADIUS
DIST_ACINAR == (28 * C_RADIUS) \div 10
DIST_DUCT == (25 * C_RADIUS) \div 10

\* ----------------------------------------------------------------- state
VARIABLES
  pc,            \* position in the main program
  wall,          \* 1: create_duct(0.0), 2: create_duct(2.0 * C_OFFSET)
  k,             \* create_duct: index into DSEG of the loop variable s
  objs,          \* mesh objects in the scene
  active,        \* bpy.context.object (0: none)
  prev,          \* create_duct: prev (0: None)
  next_id,       \* id given to the next object created
  unions,        \* boolean unions applied, per wall
  seg,           \* create_cells: index into DSEG of the loop variable s
  i,             \* create_seg_cells: seed index
  j,             \* create_seg_cells: retry index
  create,        \* create_seg_cells: create
  a1, a2, z, r,  \* create_seg_cells: the last draws
  p,             \* create_seg_cells: the last candidate
  attempts,      \* candidates drawn so far for seed index i
  cell_centers,  \* the registry of accepted seed points
  cells          \* the duplicated cells, in creation order

ductv == <<wall, k, objs, active, prev, next_id, unions>>
cellv == <<seg, i, j, create, a1, a2, z, r, p, attempts, cell_centers, cells>>
vars == <<pc, wall, k, objs, active, prev, next_id, unions,
          seg, i, j, create, a1, a2, z, r, p, attempts, cell_centers, cells>>

NONE == <<0, 0, 0>>

Init ==
  /\ pc = "sphere"
  /\ wall = 1
  /\ k = 1
  /\ objs = {}
  /\ active = 0
  /\ prev = 0
  /\ next_id = 1
  /\ unions = <<0, 0>>
  /\ seg = 1
  /\ i = 0
  /\ j = 0
  /\ create = FALSE
  /\ a1 = 0 /\ a2 = 0 /\ z = 0 /\ r = 0
  /\ p = NONE
  /\ attempts = 0
  /\ cell_centers = <<>>
  /\ cells = <<>>

\* ------------------------------------------------------------ create_duct
\* r1 and r2 of create_duct for segment s and wall w
DuctR1(s, w) == Pt(s.idx_out).radius + WALL_OFFSET[w]
DuctR2(s, w) ==
  IF WALL_OFFSET[w] # 0 /\ s.ctype = "acinar"
    THEN A_RADIUS
    ELSE Pt(s.idx_in).radius + WALL_OFFSET[w]

\* combine that leaves prev in the scene
combine_keep(os, act, pv) ==
  LET po == CHOOSE o \in os : o.id = pv
  IN  { IF o.id = act THEN [o EXCEPT !.parts = o.parts \cup po.parts] ELSE o
          : o \in os }

\* combine(prev): the active object absorbs prev by boolean union, prev is
\* deleted, the active object is returned
combine(os, act, pv) ==
  LET po == CHOOSE o \in os : o.id = pv
  IN  { IF o.id = act THEN [o EXCEPT !.parts = o.parts \cup po.parts] ELSE o
          : o \in os \ {po} }

\* primitive_ico_sphere_add at the idx_in endpoint of segment k, of radius
\* (1.0 + EPSILON) * r2 with EPSILON = 0.005, stretched by 1.5 along z for
\* the acinus of the outer wall
AddSphere ==
  /\ pc = "sphere"
  /\ LET s == DSEG[k]
         r2 == DuctR2(s, wall)
     IN  objs' = objs \cup
           {[id |-> next_id, wall |-> wall, coll |-> "main", name |-> "Icosphere",
             parts |-> {[kind |-> "sphere", seg |-> k, at |-> s.idx_in,
                         radius1 |-> (1005 * r2) \div 1000,
                         radius2 |-> (1005 * r2) \div 1000,
                         stretch |-> IF WALL_OFFSET[wall] # 0 /\ s.ctype = "acinar"
                                       THEN 15 ELSE 10]}]}
  /\ active' = next_id
  /\ next_id' = next_id + 1
  /\ pc' = "sphere_join"
  /\ UNCHANGED <<wall, k, prev, unions>>
  /\ UNCHANGED cellv

\* if not prev: prev = bpy.context.object  else: prev = combine(prev)
JoinSphere ==
  /\ pc = "sphere_join"
  /\ IF prev = 0
       THEN /\ prev' = active
            /\ UNCHANGED <<objs, unions>>
       ELSE /\ objs' = combine(objs, active, prev)
            /\ prev' = active
            /\ unions' = [unions EXCEPT ![wall] = @ + 1]
  /\ pc' = "cone"
  /\ UNCHANGED <<wall, k, active, next_id>>
  /\ UNCHANGED cellv

\* create_seg(p1, r1, p2, r2): primitive_cone_add
AddCone ==
  /\ pc = "cone"
  /\ LET s == DSEG[k]
     IN  objs' = objs \cup
           {[id |-> next_id, wall |-> wall, coll |-> "main", name |-> "Cone",
             parts |-> {[kind |-> "cone", seg |-> k, at |-> s.idx_in,
                         radius1 |-> DuctR1(s, wall),
                         radius2 |-> DuctR2(s, wall),
                         stretch |-> 10]}]}
  /\ active' = next_id
  /\ next_id' = next_id + 1
  /\ pc' = "cone_join"
  /\ UNCHANGED <<wall, k, prev, unions>>
  /\ UNCHANGED cellv

\* prev = combine(prev) after the cone, then the next segment
JoinCone ==
  /\ pc = "cone_join"
  /\ objs' = combine(objs, active, prev)
  /\ prev' = active
  /\ unions' = [unions EXCEPT ![wall] = @ + 1]
  /\ IF k < Len(DSEG)
       THEN k' = k + 1 /\ pc' = "sphere"
       ELSE k' = k /\ pc' = "finish"
  /\ UNCHANGED <<wall, active, next_id>>
  /\ UNCHANGED cellv

\* the rest of create_duct: name, remesh, collision, move to the Duct
\* collection; then the second wall or the prototype cell
FinishDuct ==
  /\ pc = "finish"
  /\ objs' = { IF o.id = active
                 THEN [o EXCEPT !.name = IF WALL_OFFSET[wall] = 0
                                           THEN "InnerWall" ELSE "OuterWall",
                                !.coll = "Duct"]
                 ELSE o : o \in objs }
  /\ IF wall < Len(WALL_OFFSET)
       THEN /\ wall' = wall + 1
            /\ k' = 1
            /\ prev' = 0
            /\ pc' = "sphere"
       ELSE /\ pc' = "proto"
            /\ UNCHANGED <<wall, k, prev>>
  /\ UNCHANGED <<active, next_id, unions>>
  /\ UNCHANGED cellv

\* ---------------------------------------------------------- prototype cell
\* primitive_ico_sphere_add(radius = C_RADIUS), moved to the Cells
\* collection, with the Cloth and Collision modifiers; then create_cells()
CreatePrototype ==
  /\ pc = "proto"
  /\ objs' = objs \cup
       {[id |-> next_id, wall |-> 0, coll |-> "Cells", name |-> "Icosphere",
         parts |-> {[kind |-> "sphere", seg |-> 0, at |-> 0,
                     radius1 |-> C_RADIUS, radius2 |-> C_RADIUS,
                     stretch |-> 10]}]}
  /\ active' = next_id
  /\ next_id' = next_id + 1
  /\ pc' = "try"
  /\ UNCHANGED <<wall, k, prev, unions>>
  /\ UNCHANGED cellv

\* ------------------------------------------------------- create_seg_cells
SegZ1(s) == Pt(s.idx_out).position[3]
SegZ2(s) == Pt(s.idx_in).position[3]
SegR1(s) == Pt(s.idx_out).radius + C_OFFSET
SegR2(s) == Pt(s.idx_in).radius + C_OFFSET

\* a polar angle range that covers the whole sphere
A2_MAX_full == PI

\* upper end of the polar angle range: 0.8 * math.pi
A2_MAX == (8 * PI) \div 10

\* radius of the acinar shell: 3.5 * C_RADIUS
ACINAR_R == (35 * C_RADIUS) \div 10

\* interpolation that starts from r2 instead of r1
Interp_from_r2(s, zz) ==
  ((zz - SegZ1(s)) * (SegR2(s) - SegR1(s))) \div (SegZ2(s) - SegZ1(s)) + SegR2(s)

\* ((z-z1)/z12)*r12 + r1: the cone radius at height zz, before perturbation
Interp(s, zz) ==
  ((zz - SegZ1(s)) * (SegR2(s) - SegR1(s))) \div (SegZ2(s) - SegZ1(s)) + SegR1(s)

\* an acinar candidate: PTS[s.idx_in].position + (r sin a2 cos a1,
\* r sin a2 sin a1, 1.5 r cos a2)
AcinarPoint(s, aa1, aa2) ==
  LET c == Pt(s.idx_in).position
  IN  << c[1] + (ACINAR_R * Sin(aa2) * Cos(aa1)) \div 1000000,
         c[2] + (ACINAR_R * Sin(aa2) * Sin(aa1)) \div 1000000,
         c[3] + (15 * ACINAR_R * Cos(aa2)) \div 10000 >>

\* a duct candidate: (r sin a1, r cos a1, z)
DuctPoint(rr, aa1, zz) ==
  << (rr * Sin(aa1)) \div 1000, (rr * Cos(aa1)) \div 1000, zz >>

\* acceptance that also skips the distance check against a single center
Accept_one(cc, np, dist) == Len(cc) <= 1 \/ ~too_close(cc, np, dist)

\* len(cell_centers)==0 or not too_close(p, dist)
Accept(cc, np, dist) == Len(cc) = 0 \/ ~too_close(cc, np, dist)

\* an inner loop with one iteration too many
LastTry_late(jj) == jj >= N_TRIES

\* the inner loop "for j in range(10000)" has no iteration after jj
LastTry(jj) == jj + 1 >= N_TRIES

\* an outer loop with one iteration too many
LastSeed_late(ii) == ii >= N_SEEDS

\* the outer loop "for i in range(50)" has no iteration after ii
LastSeed(ii) == ii + 1 >= N_SEEDS

\* registration at the front of the list
Registered_front(cc, np) == <<np>> \o cc

\* cell_centers.append(p)
Registered(cc, np) == Append(cc, np)

\* the end of one inner loop iteration: break on acceptance, else the next j
\* or the end of the loop
AfterTry(accept) ==
  /\ create' = accept
  /\ attempts' = attempts + 1
  /\ IF accept \/ LastTry(j)
       THEN pc' = "seed_end" /\ j' = j
       ELSE pc' = "try" /\ j' = j + 1
  /\ UNCHANGED <<seg, i, cell_centers, cells>>
  /\ UNCHANGED ductv

\* one inner loop iteration for the acinar segment
TryAcinar ==
  /\ pc = "try"
  /\ DSEG[seg].ctype = "acinar"
  /\ \E f1 \in A1_DRAWS, f2 \in A2_DRAWS :
       LET na1 == uniform(0, 2 * PI, f1)
           na2 == uniform(0, A2_MAX, f2)
           np == AcinarPoint(DSEG[seg], na1, na2)
       IN  /\ a1' = na1
           /\ a2' = na2
           /\ r' = ACINAR_R
           /\ p' = np
           /\ z' = z
           /\ AfterTry(Accept(cell_centers, np, DIST_ACINAR))

\* one inner loop iteration for a duct segment
TryDuct ==
  /\ pc = "try"
  /\ DSEG[seg].ctype # "acinar"
  /\ \E f1 \in A1_DRAWS, fz \in Z_DRAWS, fu \in U_DRAWS :
       LET s == DSEG[seg]
           na1 == uniform(0, 2 * PI, f1)
           nz == uniform(SegZ1(s) + C_RADIUS, SegZ2(s), fz)
           nr == (uniform(95, 105, fu) * Interp(s, nz)) \div 100
           np == DuctPoint(nr, na1, nz)
       IN  /\ a1' = na1
           /\ a2' = a2
           /\ z' = nz
           /\ r' = nr
           /\ p' = np
           /\ AfterTry(Accept(cell_centers, np, DIST_DUCT))

\* the next seed index, the next segment of create_cells, or the end
NextSeed ==
  /\ create' = FALSE
  /\ j' = 0
  /\ attempts' = 0
  /\ IF ~LastSeed(i)
       THEN i' = i + 1 /\ seg' = seg /\ pc' = "try"
       ELSE /\ i' = 0
            /\ IF seg < Len(DSEG)
                 THEN seg' = seg + 1 /\ pc' = "try"
                 ELSE seg' = seg /\ pc' = "remove"

\* "if create:" taken: register the point and duplicate the cell there
PlaceSeed ==
  /\ pc = "seed_end"
  /\ create
  /\ \E fs \in S_DRAWS :
       LET ct == DSEG[seg].ctype
           scale == IF ct = "acinar" THEN uniform(90, 99, fs)
                                     ELSE uniform(90, 110, fs)
       IN  cells' = Append(cells,
             [id |-> next_id, name |-> "Cell", mat |-> seg, location |-> p,
              scale |-> scale,
              pressure |-> cell_types[ct].pressure,
              stiffness |-> cell_types[ct].stiffness])
  /\ cell_centers' = Registered(cell_centers, p)
  /\ active' = next_id
  /\ next_id' = next_id + 1
  /\ NextSeed
  /\ UNCHANGED <<a1, a2, z, r, p>>
  /\ UNCHANGED <<wall, k, objs, prev, unions>>

\* "if create:" not taken: the seed index is left without a cell
SkipSeed ==
  /\ pc = "seed_end"
  /\ ~create
  /\ NextSeed
  /\ UNCHANGED <<a1, a2, z, r, p, cell_centers, cells>>
  /\ UNCHANGED ductv

\* bpy.data.objects.remove(bpy.data.objects['Icosphere'])
RemovePrototype ==
  /\ pc = "remove"
  /\ objs' = { o \in objs : o.name # "Icosphere" }
  /\ pc' = "done"
  /\ UNCHANGED <<wall, k, active, prev, next_id, unions>>
  /\ UNCHANGED cellv

Next ==
  \/ AddSphere
  \/ JoinSphere
  \/ AddCone
  \/ JoinCone
  \/ FinishDuct
  \/ CreatePrototype
  \/ TryAcinar
  \/ TryDuct
  \/ PlaceSeed
  \/ SkipSeed
  \/ RemovePrototype

Spec == Init /\ [][Next]_vars

\* ============================================================ properties
InCells == pc \in {"try", "seed_end", "remove", "done"}

\* the registry entry n was placed by the call for the acinar segment
PlacedAcinar(n) == DSEG[cells[n].mat].ctype = "acinar"

\* C1: at every point of a generation run any two distinct entries of
\* cell_centers are at least 2.5 * C_RADIUS apart, and at least
\* 2.8 * C_RADIUS apart when one of them was placed for the acinar segment,
\* whatever segments the two come from.
C1_MinSeparation ==
  \A m, n \in 1..Len(cell_centers) :
    m # n =>
      /\ LenSq(cell_centers[m], cell_centers[n])
           >= ((25 * C_RADIUS) \div 10) * ((25 * C_RADIUS) \div 10)
      /\ (PlacedAcinar(m) \/ PlacedAcinar(n)) =>
           LenSq(cell_centers[m], cell_centers[n])
             >= ((28 * C_RADIUS) \div 10) * ((28 * C_RADIUS) \div 10)

\* the run is over with two acinar points and points of two different duct
\* segments in the registry
C1_Witness ==
  /\ pc = "done"
  /\ \E m, n \in 1..Len(cell_centers) :
       m # n /\ PlacedAcinar(m) /\ PlacedAcinar(n)
  /\ \E m, n \in 1..Len(cell_centers) :
       /\ ~PlacedAcinar(m) /\ ~PlacedAcinar(n)
       /\ cells[m].mat # cells[n].mat

\* create_duct has got to segment n of DSEG (every segment, from the second
\* wall on)
SegReached(n) == wall > 1 \/ n <= k \/ InCells

\* C2 (as amended): every idx_out and idx_in of DSEG is a valid index into
\* PTS, and the radius of the idx_out endpoint is strictly greater than that
\* of the idx_in endpoint for every segment but the third (2 -> 3), whose two
\* endpoint radii are equal: radii never increase in the listed order.
C2_TablesConsistent ==
  \A n \in 1..Len(DSEG) : SegReached(n) =>
    /\ DSEG[n].idx_out \in 0..(Len(PTS) - 1)
    /\ DSEG[n].idx_in \in 0..(Len(PTS) - 1)
    /\ Pt(DSEG[n].idx_out).radius >= Pt(DSEG[n].idx_in).radius
    /\ (Pt(DSEG[n].idx_out).radius = Pt(DSEG[n].idx_in).radius) <=> (n = 3)

\* C2 as stated: the radius strictly decreases along every segment
C2_StrictlyDecreasing ==
  \A n \in 1..Len(DSEG) : SegReached(n) =>
    /\ DSEG[n].idx_out \in 0..(Len(PTS) - 1)
    /\ DSEG[n].idx_in \in 0..(Len(PTS) - 1)
    /\ Pt(DSEG[n].idx_out).radius > Pt(DSEG[n].idx_in).radius

\* create_duct(0.0) has built the cone of the third segment as a cylinder
C2_Witness ==
  \E o \in objs : \E q \in o.parts :
    /\ o.wall = 1
    /\ q.kind = "cone"
    /\ q.seg = 3
    /\ q.radius1 = q.radius2
    /\ q.radius1 = Pt(DSEG[3].idx_out).radius

\* the seed index that follows <<seg, i>>, or <<0, 0>> after the last one
FollowingSeed ==
  IF i + 1 < N_SEEDS THEN <<seg, i + 1>>
  ELSE IF seg < Len(DSEG) THEN <<seg + 1, 0>>
  ELSE <<0, 0>>

\* C3: no seed index draws more than N_TRIES candidates (10,000 in the
\* source); when all of them were rejected the seed index is skipped: nothing
\* is appended to cell_centers, no cell is duplicated, the seed index is not
\* tried again and the loop goes on with the next seed index.
C3_SilentSkip ==
  /\ [](/\ attempts <= N_TRIES
        /\ (pc = "seed_end" /\ ~create) => attempts = N_TRIES)
  /\ [][(pc = "seed_end" /\ ~create) =>
          /\ cell_centers' = cell_centers
          /\ cells' = cells
          /\ IF FollowingSeed = <<0, 0>>
               THEN pc' = "remove"
               ELSE pc' = "try" /\ <<seg', i'>> = FollowingSeed
          /\ attempts' = 0]_vars

\* a later seed index is being tried although an earlier one of the same
\* segment was left without a cell
C3_Witness ==
  /\ pc = "try"
  /\ i > 0
  /\ attempts > 0
  /\ Cardinality({n \in 1..Len(cells) : cells[n].mat = seg}) < i

\* C4: one call of create_seg_cells adds at most N_SEEDS points (50 in the
\* source) to cell_centers, so the registry never holds more than
\* Len(DSEG) * N_SEEDS points (250 in the source).
C4_AtMostOnePerSeed ==
  /\ \A s \in 1..Len(DSEG) :
       Cardinality({n \in 1..Len(cell_centers) : cells[n].mat = s}) <= N_SEEDS
  /\ Len(cell_centers) <= Len(DSEG) * N_SEEDS

\* the run is over and some call has placed a point for every seed index
C4_Witness ==
  /\ pc = "done"
  /\ \E s \in 1..Len(DSEG) :
       Cardinality({n \in 1..Len(cell_centers) : cells[n].mat = s}) = N_SEEDS

\* C5: every step leaves cell_centers unchanged or appends the accepted point
\* at its end without touching the earlier entries, and each append comes
\* with one duplicated cell located at that point: there are always as many
\* cells as registry entries.
C5_AppendOnly ==
  /\ [](/\ Len(cells) = Len(cell_centers)
        /\ \A n \in 1..Len(cells) : cells[n].location = cell_centers[n])
  /\ [][\/ cell_centers' = cell_centers /\ cells' = cells
        \/ /\ pc = "seed_end" /\ create
           /\ Len(cell_centers') = Len(cell_centers) + 1
           /\ SubSeq(cell_centers', 1, Len(cell_centers)) = cell_centers
           /\ cell_centers'[Len(cell_centers')] = p
           /\ Len(cells') = Len(cells) + 1
           /\ SubSeq(cells', 1, Len(cells)) = cells
           /\ cells'[Len(cells')].location = p]_vars

\* a third point has just been registered behind two earlier ones
C5_Witness ==
  /\ Len(cell_centers) = 3
  /\ Len(cells) = 3
  /\ cell_centers[3] = p
  /\ attempts = 0

\* the minimum distance create_seg_cells uses for segment s
MinDistOf(s) ==
  IF DSEG[s].ctype = "acinar" THEN (28 * C_RADIUS) \div 10
                              ELSE (25 * C_RADIUS) \div 10

\* C6: while cell_centers is empty the run is at the first attempt of the
\* first seed of the first segment and that candidate is accepted whatever
\* its position; the registry is never empty again, and every candidate
\* accepted afterwards is at least the minimum distance away from every
\* center registered before it.
C6_Bootstrap ==
  /\ [](Len(cell_centers) = 0 =>
          /\ seg = 1 /\ i = 0 /\ j = 0
          /\ attempts <= 1
          /\ pc = "seed_end" => create)
  /\ []((pc = "seed_end" /\ create /\ Len(cell_centers) > 0) =>
          \A n \in 1..Len(cell_centers) :
            LenSq(p, cell_centers[n]) >= MinDistOf(seg) * MinDistOf(seg))
  /\ [][Len(cell_centers) > 0 => Len(cell_centers') > 0]_vars

\* the very first candidate has been drawn and accepted against an empty
\* registry
C6_Witness ==
  /\ pc = "seed_end"
  /\ create
  /\ Len(cell_centers) = 0
  /\ attempts = 1
  /\ p # NONE

\* C8: for a non-acinar segment the height z drawn lies in
\* [z1 + C_RADIUS, z2], the interpolated radius at z lies between the wall
\* radii r1 and r2 inclusive, and the interpolated radius is monotonic in z
\* over the heights that can be drawn.
C8_InterpMonotonic ==
  (pc \in {"try", "seed_end"} /\ DSEG[seg].ctype # "acinar" /\ attempts > 0) =>
    LET s == DSEG[seg]
        lo == Pt(s.idx_out).position[3] + C_RADIUS
        hi == Pt(s.idx_in).position[3]
        w1 == Pt(s.idx_out).radius + C_OFFSET
        w2 == Pt(s.idx_in).radius + C_OFFSET
        v == Interp(s, z)
    IN  /\ lo <= z /\ z <= hi
        /\ (w1 <= v /\ v <= w2) \/ (w2 <= v /\ v <= w1)
        /\ \A f \in 0..RAND_DEN :
             LET y == uniform(lo, hi, f)
             IN  /\ (y <= z /\ w2 <= w1) => Interp(s, y) >= v
                 /\ (y >= z /\ w2 <= w1) => Interp(s, y) <= v
                 /\ (y <= z /\ w2 >= w1) => Interp(s, y) <= v
                 /\ (y >= z /\ w2 >= w1) => Interp(s, y) >= v

\* a height at the inner end of a tapering segment has been drawn: the
\* interpolated radius is the inner wall radius
C8_Witness ==
  /\ pc \in {"try", "seed_end"}
  /\ DSEG[seg].ctype # "acinar"
  /\ attempts > 0
  /\ z = Pt(DSEG[seg].idx_in).position[3]
  /\ Pt(DSEG[seg].idx_in).radius < Pt(DSEG[seg].idx_out).radius
  /\ Interp(DSEG[seg], z) = Pt(DSEG[seg].idx_in).radius + C_OFFSET

\* squared radius, on the unstretched shell, of the offset of q from c
ShellSq(q, c) ==
  LET dz == (10 * (q[3] - c[3])) \div 15
  IN  (q[1] - c[1]) * (q[1] - c[1]) + (q[2] - c[2]) * (q[2] - c[2]) + dz * dz

\* C9: every candidate drawn for the acinar segment has its polar angle a2
\* in [0, 0.8 pi] and lies (to fixed point precision) on the shell of radius
\* 3.5 * C_RADIUS around PTS[idx_in] stretched by 1.5 along z, so its z
\* offset from that endpoint is at least 1.5 * 3.5 * C_RADIUS * cos(0.8 pi).
C9_AcinarShell ==
  (pc \in {"try", "seed_end"} /\ DSEG[seg].ctype = "acinar" /\ attempts > 0) =>
    LET c == Pt(DSEG[seg].idx_in).position
        rr == (35 * C_RADIUS) \div 10
    IN  /\ 0 <= a2 /\ 10 * a2 <= 8 * PI
        /\ (rr - 3) * (rr - 3) <= ShellSq(p, c)
        /\ ShellSq(p, c) <= (rr + 3) * (rr + 3)
        /\ p[3] - c[3] >= (15 * rr * Cos((8 * PI) \div 10)) \div 10000

\* an acinar candidate at the largest polar angle has been drawn, below the
\* endpoint
C9_Witness ==
  /\ pc \in {"try", "seed_end"}
  /\ DSEG[seg].ctype = "acinar"
  /\ attempts > 0
  /\ 10 * a2 = 8 * PI
  /\ p[3] < Pt(DSEG[seg].idx_in).position[3]

\* the objects of wall w still in the scene
WallObjs(w) == {o \in objs : o.wall = w}

\* the primitives create_duct adds for the segments 1..n: a sphere and a cone
\* each, the cone of segment n left out when withCone is false
Primitives(n, withCone) ==
  {<<"sphere", m>> : m \in 1..n} \cup
  {<<"cone", m>> : m \in 1..(IF withCone THEN n ELSE n - 1)}

PartsOf(o) == {<<q.kind, q.seg>> : q \in o.parts}

\* C10: create_duct adds, for each segment in DSEG order, the sphere and then
\* the cone, and unions every new primitive but the first sphere into the
\* running mesh: 2 * Len(DSEG) - 1 unions per wall; after each combine, and
\* once create_duct is over, exactly one object of that wall is left and it
\* holds every primitive added so far.
C10_SequentialUnions ==
  /\ \A w \in 1..Len(WALL_OFFSET) :
       (w < wall \/ pc \in {"proto", "try", "seed_end", "remove", "done"}) =>
         /\ unions[w] = 2 * Len(DSEG) - 1
         /\ Cardinality(WallObjs(w)) = 1
         /\ \A o \in WallObjs(w) : PartsOf(o) = Primitives(Len(DSEG), TRUE)
  /\ (pc = "cone") =>
       /\ unions[wall] = 2 * (k - 1)
       /\ Cardinality(WallObjs(wall)) = 1
       /\ \A o \in WallObjs(wall) :
            o.id = prev /\ PartsOf(o) = Primitives(k, FALSE)
  /\ (pc = "finish" \/ (pc = "sphere" /\ prev # 0)) =>
       LET n == IF pc = "finish" THEN k ELSE k - 1
       IN  /\ unions[wall] = 2 * n - 1
           /\ Cardinality(WallObjs(wall)) = 1
           /\ \A o \in WallObjs(wall) :
                o.id = prev /\ PartsOf(o) = Primitives(n, TRUE)
  /\ (pc = "sphere" /\ prev = 0) => WallObjs(wall) = {} /\ unions[wall] = 0

\* the outer wall is complete: both walls took 2 * Len(DSEG) - 1 unions
C10_Witness ==
  /\ pc = "proto"
  /\ unions = <<2 * Len(DSEG) - 1, 2 * Len(DSEG) - 1>>
  /\ Cardinality(WallObjs(2)) = 1

====
